---- MODULE Spec2Model ----
(***************************************************************************)
(* SchemaFinder (src/schemafinder.js): the worker-pool pipeline            *)
(* processFiles, the worker's message handler and the signature-keyed      *)
(* first-writer-wins maps.                                                 *)
(*                                                                         *)
(* Texts are sequences of one-character strings.  What the regular         *)
(* expressions and the Babel parser find in a file is part of the file's   *)
(* description (Files); everything done with the matches is computed as    *)
(* the code computes it.                                                   *)
(*                                                                         *)
(* options is the module-level program.opts() both the main thread         *)
(* (line 517) and the worker's handler (lines 335, 467, 474, 480) read.    *)
(***************************************************************************)
EXTENDS Integers, Sequences, FiniteSets, TLC

VARIABLES
    options,        \* program.opts() as the functions read it: [concurrency, verbose, aggressive]
    entries,        \* processFiles: entries, a sequence of [filePath, origin]
    pc,             \* "idle" before processFiles is called, "draining", "done"
    workers,        \* processFiles: workers, the free-worker array (a stack)
    created,        \* number of Worker objects constructed at line 509
    listeners,      \* per worker: the tasks whose 'message' handler is attached
    allOperations,  \* processFiles: allOperations (Map, in insertion order)
    bar,            \* cliProgress bar value
    queue,          \* p-limit: tasks waiting for admission
    activeCount,    \* p-limit: tasks admitted and not settled
    status,         \* per task: where processEntry stands
    assigned,       \* per task: the worker popped for it (0: none)
    resolved,       \* per task: its promise has been resolved
    inbox,          \* per worker: task messages posted to it, not yet handled
    outbox,         \* per worker: messages posted to the main thread, in flight
    finalReceived,  \* per task: its result message has reached the main thread
    arrived,        \* operation lists of the result messages received, in order
    posts,          \* per task: messages its worker posted while handling it
    terminated,     \* workers on which terminate() was called
    result,         \* the array processFiles returns
    run,            \* which call of processFiles this is (1 or 2)
    firstResult,    \* what the first call returned, once a second call is made
    handler,        \* the worker's message handler run on one message, step by step
    normalization,  \* a text and the keys computed from it
    inference,      \* an argument list and the variables inferred from it
    cli,            \* the --concurrency argument, parsed and validated
    call,           \* the CallExpression visitor run on one HTTP-client call
    urlList         \* processUrlList and the tasks made of its entries

vars == << options, entries, pc, workers, created, listeners, allOperations, bar,
           queue, activeCount, status, assigned, resolved, inbox, outbox,
           finalReceived, arrived, posts, terminated, result, run, firstResult,
           handler, normalization, inference, cli, call, urlList >>

\* the functions that are run on their own
unitVars == << handler, normalization, inference, cli, call, urlList >>

\* processFiles and the workers it drives
mainVars == << entries, pc, workers, created, listeners, allOperations, bar,
               queue, activeCount, status, assigned, resolved, inbox, outbox,
               finalReceived, arrived, posts, terminated, result, run, firstResult >>

-----------------------------------------------------------------------------
(* Bounds *)

MaxTasks == 3

\* the longest text that is normalised
MaxTextLen == 5

\* the longest argument list variables are inferred from
MaxArgs == 2

\* the longest value given to --concurrency
MaxDigits == 2

\* the task messages one worker handles one after the other
MaxMessages == 2

\* the longest path of a short URL, and the longest URL list
MaxPathLen == 1
MaxLines == 2

Concurrencies == {1, 2, 8}

-----------------------------------------------------------------------------
(* Texts and normalisation *)

\* the elements of a sequence
Range(s) == { s[i] : i \in 1..Len(s) }

IsSpace(c) == c \in {" ", "\n", "\t"}

\* text.replace(/\s\s/g, ' '): every pair of whitespace characters becomes one space
RECURSIVE CollapseWsPairs(_)
CollapseWsPairs(s) ==
    IF s = << >> THEN << >>
    ELSE IF Len(s) > 1 /\ IsSpace(s[1]) /\ IsSpace(s[2])
         THEN << " " >> \o CollapseWsPairs(SubSeq(s, 3, Len(s)))
         ELSE << Head(s) >> \o CollapseWsPairs(Tail(s))

\* text.replace(/\s+/g, ' '): every run of whitespace becomes one space
RECURSIVE CollapseWs(_)
CollapseWs(s) ==
    IF s = << >> THEN << >>
    ELSE IF IsSpace(Head(s))
         THEN IF Len(s) > 1 /\ IsSpace(s[2])
              THEN CollapseWs(Tail(s))
              ELSE << " " >> \o CollapseWs(Tail(s))
         ELSE << Head(s) >> \o CollapseWs(Tail(s))

RECURSIVE TrimLeft(_)
TrimLeft(s) ==
    IF s # << >> /\ IsSpace(Head(s)) THEN TrimLeft(Tail(s)) ELSE s

RECURSIVE TrimRight(_)
TrimRight(s) ==
    IF s # << >> /\ IsSpace(s[Len(s)])
    THEN TrimRight(SubSeq(s, 1, Len(s) - 1))
    ELSE s

\* String.prototype.trim
Trim(s) == TrimRight(TrimLeft(s))

\* text.replace(/\s+/g, ' ').trim()
Normalize(s) == Trim(CollapseWs(s))

\* s.split(sep) for a one-character separator
RECURSIVE SplitAt(_, _, _)
SplitAt(s, sep, cur) ==
    IF s = << >> THEN << cur >>
    ELSE IF Head(s) = sep THEN << cur >> \o SplitAt(Tail(s), sep, << >>)
         ELSE SplitAt(Tail(s), sep, Append(cur, Head(s)))

Split(s, sep) == SplitAt(s, sep, << >>)

\* s.includes(sub)
Includes(s, sub) ==
    \E i \in 1..(Len(s) - Len(sub) + 1) : SubSeq(s, i, i + Len(sub) - 1) = sub

-----------------------------------------------------------------------------
(* JavaScript Map, kept as a sequence of [key, value] in insertion order *)

MapHas(m, k) == \E i \in 1..Len(m) : m[i].key = k

MapGet(m, k) == m[CHOOSE i \in 1..Len(m) : m[i].key = k].value

MapKeys(m) == { m[i].key : i \in 1..Len(m) }

\* Array.from(map.values())
MapValues(m) == [ i \in 1..Len(m) |-> m[i].value ]

\* map.set(k, v): a new key is appended, a present key keeps its position
MapSet(m, k, v) ==
    IF MapHas(m, k)
    THEN [ i \in 1..Len(m) |-> IF m[i].key = k THEN [key |-> k, value |-> v] ELSE m[i] ]
    ELSE Append(m, [key |-> k, value |-> v])

-----------------------------------------------------------------------------
(* Variable inference: getDefaultValue and the argument loop of extractOperation *)

TString  == << "S", "t", "r", "i", "n", "g" >>
TInt     == << "I", "n", "t" >>
TFloat   == << "F", "l", "o", "a", "t" >>
TBoolean == << "B", "o", "o", "l", "e", "a", "n" >>
TID      == << "I", "D" >>
TUser    == << "U", "s", "e", "r" >>

\* JavaScript values, written as their JSON text
SampleString == "\"sample-string\""
SampleId     == "\"123\""
Zero         == "0"
False        == "false"
EmptyList    == "[]"
Null         == "null"

\* !v
Falsy(v) == v \in { Zero, False, Null, "\"\"" }

\* getDefaultValue without the test for Float
GetDefaultValueNoFloat(type) ==
    IF Includes(type, TString) THEN SampleString
    ELSE IF Includes(type, TInt) THEN Zero
    ELSE IF Includes(type, TBoolean) THEN False
    ELSE IF Includes(type, TID) THEN SampleId
    ELSE IF Includes(type, << "[" >>) THEN EmptyList
    ELSE Null

\* getDefaultValue(type), lines 288-295
GetDefaultValue(type) ==
    IF Includes(type, TString) THEN SampleString
    ELSE IF Includes(type, TInt) \/ Includes(type, TFloat) THEN Zero
    ELSE IF Includes(type, TBoolean) THEN False
    ELSE IF Includes(type, TID) THEN SampleId
    ELSE IF Includes(type, << "[" >>) THEN EmptyList
    ELSE Null

\* one iteration of args.split(',').forEach, lines 267-272
InferArg(variables, arg) ==
    LET parts   == Split(arg, ":")
        varName == Trim(parts[1])
        varType == IF Len(parts) >= 2 THEN Trim(parts[2]) ELSE << >>
    IN  IF varName # << >> /\ varType # << >>
           /\ (~MapHas(variables, varName) \/ Falsy(MapGet(variables, varName)))
        THEN MapSet(variables, varName, GetDefaultValue(varType))
        ELSE variables

RECURSIVE InferArgs(_, _)
InferArgs(variables, argList) ==
    IF argList = << >> THEN variables
    ELSE InferArgs(InferArg(variables, Head(argList)), Tail(argList))

\* if (args) { args.split(',').forEach(...) }, lines 266-273
InferVariables(variables, args) ==
    IF args = << >> THEN variables ELSE InferArgs(variables, Split(args, ","))

-----------------------------------------------------------------------------
(* The files of the run.  A file's code is described by what the patterns  *)
(* and the parser find in it: the GQL_PATTERN matches of each comment and  *)
(* of each gql-tagged template, its quoted spans with what                 *)
(* detectGraphQLInString's patterns match in them, the matches of          *)
(* MINIFIED_GQL_PATTERNS on the whole text, its length, its number of      *)
(* lines, whether parser.parse accepts it, and the scan (if any) in which  *)
(* an exception is raised.                                                 *)

\* three spellings of one operation (they differ in whitespace only) and another one
QA1 == << "q", " ", "A", " ", "{", "}" >>
QA2 == << "q", " ", "\n", "A", " ", "{", "}" >>
QA3 == << "q", "\t", "A", " ", " ", "{", "}" >>
QB1 == << "q", " ", "B", " ", "{", "}" >>

\* query C(id: String!, n: Int) {}
QCArgs == << "i", "d", ":", " " >> \o TString \o << "!", ",", " ", "n", ":", " " >> \o TInt
QC1 == << "q", " ", "C", "(" >> \o QCArgs \o << ")", " ", "{", "}" >>

KwQuery    == << "q", "u", "e", "r", "y" >>
KwMutation == << "m", "u", "t", "a", "t", "i", "o", "n" >>

\* mutation Bar($id: ID!) { run(id: $id) }
BarArgs == << "$", "i", "d", ":", " " >> \o TID \o << "!" >>
BarOp ==
    KwMutation \o << " ", "B", "a", "r", "(" >> \o BarArgs
        \o << ")", " ", "{", " ", "r", "u", "n", "(", "i", "d", ":", " ",
              "$", "i", "d", ")", " ", "}" >>

\* the source text "{\"query\":\"mutation Bar($id: ID!) { run(id: $id) }\"}" :
\* pattern 1 matches it up to the quote of the last escaped quote, pattern 2 all of it
BarQuoted1 ==
    << "\"", "{", "\\", "\"" >> \o KwQuery \o << "\\", "\"", ":", "\\", "\"" >>
        \o BarOp \o << "\\", "\"" >>
BarQuoted2 == BarQuoted1 \o << "}", "\"" >>

\* the backquote character
Backquote == "BQ"

\* the template literal holding mutation Bar($id: ID!) { run(id: $id) }, with
\* its backquotes
BarBacktick == << Backquote >> \o BarOp \o << Backquote >>

\* the string literal "mutation Bar($id: ID!) { run(id: $id) }" with its quotes
BarDoubleQuoted == << "\"" >> \o BarOp \o << "\"" >>

\* match = [fullMatch, operationName, args] of GQL_PATTERN
MatchArgs(text, name, args) == [fullMatch |-> text, operationName |-> name, args |-> args]

Match(text, name) == MatchArgs(text, name, << >>)

\* a match of one of MINIFIED_GQL_PATTERNS: its index in the list, its text and
\* what extractOperationName finds in the text ("" when it finds nothing)
PatternMatch(index, text, name) == [index |-> index, text |-> text, name |-> name]

\* a quoted span: whether POTENTIAL_GQL_STRING accepts its content, the
\* GQL_PATTERN matches of the cleaned content, the MINIFIED_GQL_PATTERNS matches
QuotedSpan(potential, gql, minified) ==
    [potential |-> potential, gql |-> gql, minified |-> minified]

Paths == {"a.js", "b.js", "c.js", "d.js"}

\* the files only the worker's handler is run on
WorkerPaths == (Paths \ {"c.js"}) \cup {"e.js", "f.js", "g.js", "h.js"}

NoScan == [ strings |-> << >>, astStrings |-> << >>, patterns |-> << >>, fault |-> "none" ]

Files ==
    [ p \in Paths \cup WorkerPaths |->
        CASE p = "a.js" ->
               [readable |-> TRUE, length |-> 40, lines |-> 3, parses |-> TRUE,
                comments |-> << >>,
                tagged |-> << << Match(QA1, "A") >> >>,
                scan |-> NoScan]
          [] p = "b.js" ->
               [readable |-> TRUE, length |-> 60, lines |-> 4, parses |-> FALSE,
                comments |-> << << Match(QA2, "A"), Match(QB1, "B") >>,
                                << Match(QA3, "A") >> >>,
                tagged |-> << << Match(QB1, "B") >> >>,
                scan |-> [ NoScan EXCEPT !.patterns = << PatternMatch(0, BarOp, "Bar") >> ]]
          [] p = "c.js" ->
               [readable |-> FALSE, length |-> 0, lines |-> 1, parses |-> TRUE,
                comments |-> << >>, tagged |-> << >>,
                scan |-> NoScan]
          [] p = "d.js" ->
               [readable |-> TRUE, length |-> 20000, lines |-> 1, parses |-> TRUE,
                comments |-> << << Match(QA3, "A") >> >>,
                tagged |-> << << Match(QA1, "A") >> >>,
                \* likely minified; the string-literal scan raises an exception
                scan |-> [ NoScan EXCEPT !.fault = "strings" ]]
          [] p = "e.js" ->
               \* x="{\"query\":\"mutation Bar($id: ID!) { run(id: $id) }\"}";
               [readable |-> TRUE, length |-> 62, lines |-> 1, parses |-> TRUE,
                comments |-> << >>, tagged |-> << >>,
                scan |-> [ strings |-> << QuotedSpan(TRUE,
                                             << MatchArgs(BarOp, "Bar", BarArgs) >>,
                                             << >>) >>,
                           astStrings |-> << QuotedSpan(TRUE,
                                             << MatchArgs(BarOp, "Bar", BarArgs) >>,
                                             << >>) >>,
                           patterns |-> << PatternMatch(0, BarOp, "Bar"),
                                           PatternMatch(1, BarQuoted1, "Bar"),
                                           PatternMatch(2, BarQuoted2, "Bar") >>,
                           fault |-> "none" ]]
          [] p = "f.js" ->
               \* one comment with two operations; the whole-file scan raises an
               \* exception
               [readable |-> TRUE, length |-> 80, lines |-> 5, parses |-> TRUE,
                comments |-> << << Match(QA1, "A"), MatchArgs(QC1, "C", QCArgs) >> >>,
                tagged |-> << << Match(QB1, "B") >> >>,
                scan |-> [ NoScan EXCEPT !.fault = "wholefile" ]]
          [] p = "g.js" ->
               \* const q = gql, then the template literal of mutation Bar, then a semicolon
               [readable |-> TRUE, length |-> 57, lines |-> 1, parses |-> TRUE,
                comments |-> << >>,
                tagged |-> << << MatchArgs(BarOp, "Bar", BarArgs) >> >>,
                scan |-> [ strings |-> << QuotedSpan(TRUE,
                                             << MatchArgs(BarOp, "Bar", BarArgs) >>,
                                             << >>) >>,
                           astStrings |-> << >>,
                           patterns |-> << PatternMatch(0, BarOp, "Bar"),
                                           PatternMatch(2, BarBacktick, "Bar") >>,
                           fault |-> "none" ]]
          [] p = "h.js" ->
               \* a bundle on one line that holds
               \* x="mutation Bar($id: ID!) { run(id: $id) }";
               [readable |-> TRUE, length |-> 20000, lines |-> 1, parses |-> TRUE,
                comments |-> << >>, tagged |-> << >>,
                scan |-> [ strings |-> << QuotedSpan(TRUE,
                                             << MatchArgs(BarOp, "Bar", BarArgs) >>,
                                             << >>) >>,
                           astStrings |-> << QuotedSpan(TRUE,
                                             << MatchArgs(BarOp, "Bar", BarArgs) >>,
                                             << >>) >>,
                           patterns |-> << PatternMatch(0, BarOp, "Bar"),
                                           PatternMatch(1, BarDoubleQuoted, "Bar"),
                                           PatternMatch(2, BarDoubleQuoted, "Bar") >>,
                           fault |-> "none" ]] ]

CodeOf(p) == [ length |-> Files[p].length, lines |-> Files[p].lines,
               parses |-> Files[p].parses, comments |-> Files[p].comments,
               tagged |-> Files[p].tagged, scan |-> Files[p].scan ]

-----------------------------------------------------------------------------
(* The worker: parentPort.on('message', ...) *)

\* the record extractOperation stores
OperationRecord(fullMatch, name, variables, filePath, origin) ==
    [ operation |-> Trim(fullMatch), name |-> name, variables |-> variables,
      source |-> filePath, origin |-> origin, context |-> "standard" ]

\* text.trim().endsWith('}')
EndsWithBrace(text) == Trim(text) # << >> /\ Trim(text)[Len(Trim(text))] = "}"

\* the brace repair of extractOperation, lines 260-262
Repaired(fullMatch) ==
    IF EndsWithBrace(fullMatch) THEN fullMatch ELSE fullMatch \o << "}" >>

\* the store of one iteration of matches.forEach in extractOperation; variables
\* is the object every record of the call refers to
ExtractMatch(operations, match, variables, filePath, origin) ==
    LET fullMatch == Repaired(match.fullMatch)
        signature == Normalize(fullMatch)
    IN  IF ~MapHas(operations, signature)
        THEN MapSet(operations, signature,
                    OperationRecord(fullMatch, match.operationName, variables,
                                    filePath, origin))
        ELSE operations

RECURSIVE ExtractMatches(_, _, _, _, _)
ExtractMatches(operations, matches, variables, filePath, origin) ==
    IF matches = << >> THEN operations
    ELSE ExtractMatches(ExtractMatch(operations, Head(matches), variables, filePath, origin),
                        Tail(matches), variables, filePath, origin)

\* the variables object of one call of extractOperation when the call returns:
\* every match adds its arguments to it
RECURSIVE CallVariables(_, _)
CallVariables(variables, matches) ==
    IF matches = << >> THEN variables
    ELSE CallVariables(InferVariables(variables, Head(matches).args), Tail(matches))

\* extractOperation(text, variables), as the map stands when the call returns
ExtractOperationWith(operations, matches, variables, filePath, origin) ==
    ExtractMatches(operations, matches, CallVariables(variables, matches), filePath, origin)

\* extractOperation(text): variables = {}
ExtractOperation(operations, matches, filePath, origin) ==
    ExtractOperationWith(operations, matches, << >>, filePath, origin)

\* extractOperation applied to each text of a list, in order
RECURSIVE ExtractTexts(_, _, _, _)
ExtractTexts(operations, texts, filePath, origin) ==
    IF texts = << >> THEN operations
    ELSE ExtractTexts(ExtractOperation(operations, Head(texts), filePath, origin),
                      Tail(texts), filePath, origin)

\* extractFromComments(code)
ExtractFromComments(operations, code, filePath, origin) ==
    ExtractTexts(operations, code.comments, filePath, origin)

\* traverse(ast, {TaggedTemplateExpression ...}) after a successful parser.parse
TraverseAst(operations, code, filePath, origin) ==
    ExtractTexts(operations, code.tagged, filePath, origin)

IsLikelyMinified(code) == code.length > 10000 /\ code.lines < 50

\* origin || filePath
OriginOr(origin, filePath) == IF origin = "" THEN filePath ELSE origin

\* \w
IsWord(c) ==
    c \notin { " ", "\n", "\t", "$", ":", ",", "(", ")", "{", "}", "!", "[", "]",
               "\"", "\\", ";", "=", "." }

\* the longest prefix of s whose characters satisfy the test
RECURSIVE WordRun(_)
WordRun(s) ==
    IF s # << >> /\ IsWord(Head(s)) THEN << Head(s) >> \o WordRun(Tail(s)) ELSE << >>

RECURSIVE BangRun(_)
BangRun(s) ==
    IF s # << >> /\ Head(s) \in {"!", "[", "]"}
    THEN << Head(s) >> \o BangRun(Tail(s)) ELSE << >>

Drop(s, n) == SubSeq(s, n + 1, Len(s))

\* arg.match(/\$(\w+):\s*(\w+[!\[\]]*)/) tried at position i of arg
ArgMatchAt(arg, i) ==
    LET name  == WordRun(Drop(arg, i))
        rest  == Drop(arg, i + Len(name))
        after == IF rest # << >> /\ Head(rest) = ":" THEN TrimLeft(Tail(rest)) ELSE << >>
        word  == WordRun(after)
    IN  [ ok   |-> /\ arg[i] = "$" /\ name # << >>
                   /\ rest # << >> /\ Head(rest) = ":" /\ word # << >>,
          name |-> name,
          type |-> word \o BangRun(Drop(after, Len(word))) ]

\* the forEach body of extractVariablesFromOperation, lines 244-248
VariableFromArg(variables, arg) ==
    LET hits == { i \in 1..Len(arg) : ArgMatchAt(arg, i).ok }
    IN  IF hits = {} THEN variables
        ELSE LET i == CHOOSE k \in hits : \A l \in hits : k <= l
             IN  MapSet(variables, ArgMatchAt(arg, i).name,
                        GetDefaultValue(ArgMatchAt(arg, i).type))

RECURSIVE VariablesFromArgs(_, _)
VariablesFromArgs(variables, argList) ==
    IF argList = << >> THEN variables
    ELSE VariablesFromArgs(VariableFromArg(variables, Head(argList)), Tail(argList))

\* extractVariablesFromOperation(operation), lines 237-253
ExtractVariablesFromOperation(operation) ==
    LET opens == { i \in 1..Len(operation) :
                     /\ operation[i] = "("
                     /\ \E j \in (i + 1)..Len(operation) : operation[j] = ")" }
    IN  IF opens = {} THEN << >>
        ELSE LET i == CHOOSE k \in opens : \A l \in opens : k <= l
                 j == CHOOSE k \in (i + 1)..Len(operation) :
                          /\ operation[k] = ")"
                          /\ \A l \in (i + 1)..(k - 1) : operation[l] # ")"
             IN  VariablesFromArgs(<< >>, Split(SubSeq(operation, i + 1, j - 1), ","))

\* the record the string-literal scan, the whole-file scan and the StringLiteral
\* visitor store for a found item, under the item's signature
StoreFound(operations, item, filePath, origin) ==
    LET signature == Normalize(item.operation)
    IN  IF ~MapHas(operations, signature)
        THEN MapSet(operations, signature,
                    [ operation |-> item.operation, name |-> item.name,
                      variables |-> ExtractVariablesFromOperation(item.operation),
                      source |-> filePath, origin |-> origin,
                      context |-> item.context ])
        ELSE operations

RECURSIVE StoreAllFound(_, _, _, _)
StoreAllFound(operations, found, filePath, origin) ==
    IF found = << >> THEN operations
    ELSE StoreAllFound(StoreFound(operations, Head(found), filePath, origin),
                       Tail(found), filePath, origin)

\* the aggressive branch of detectGraphQLInString, lines 183-196
\* D = [found, detected]
RECURSIVE DetectMinified(_, _, _)
DetectMinified(D, matches, context) ==
    IF matches = << >> THEN D
    ELSE LET m == Head(matches)
         IN  DetectMinified(
                 IF Len(m.text) > 20 /\ m.text \notin D.detected
                 THEN [ found |-> Append(D.found,
                                   [ operation |-> m.text,
                                     name |-> IF m.name = "" THEN "MinifiedOperation"
                                              ELSE m.name,
                                     context |-> context \o "_minified" ]),
                        detected |-> D.detected \cup { m.text } ]
                 ELSE D,
                 Tail(matches), context)

RECURSIVE GqlFound(_, _)
GqlFound(matches, context) ==
    IF matches = << >> THEN << >>
    ELSE << [ operation |-> Head(matches).fullMatch,
              name |-> Head(matches).operationName,
              context |-> context ] >> \o GqlFound(Tail(matches), context)

\* detectGraphQLInString(str, context), lines 161-201
DetectGraphQLInString(detected, span, context, aggressive) ==
    IF ~span.potential THEN [ found |-> << >>, detected |-> detected ]
    ELSE IF span.gql # << >>
         THEN [ found |-> GqlFound(span.gql, context), detected |-> detected ]
         ELSE IF aggressive
              THEN DetectMinified([ found |-> << >>, detected |-> detected ],
                                  span.minified, context)
              ELSE [ found |-> << >>, detected |-> detected ]

\* L = [ops, detected]: the operations map and the detectedStrings set
RECURSIVE ScanSpans(_, _, _, _, _, _)
ScanSpans(L, spans, context, aggressive, filePath, origin) ==
    IF spans = << >> THEN L
    ELSE LET D == DetectGraphQLInString(L.detected, Head(spans), context, aggressive)
         IN  ScanSpans([ ops |-> StoreAllFound(L.ops, D.found, filePath, origin),
                         detected |-> D.detected ],
                       Tail(spans), context, aggressive, filePath, origin)

\* extractFromComments(code), line 341
CommentScan(L, msg) ==
    [ L EXCEPT !.ops = ExtractFromComments(@, msg.code, msg.filePath,
                                           OriginOr(msg.origin, msg.filePath)) ]

\* analyzeStringLiterals(code), lines 208-235
AnalyzeStringLiterals(L, msg, aggressive) ==
    ScanSpans(L, msg.code.scan.strings, "string_literal", aggressive, msg.filePath,
              OriginOr(msg.origin, msg.filePath))

PatternName(index) ==
    CASE index = 0 -> "Pattern0_Operation"
      [] index = 1 -> "Pattern1_Operation"
      [] index = 2 -> "Pattern2_Operation"
      [] index = 3 -> "Pattern3_Operation"

PatternContext(index) ==
    CASE index = 0 -> "pattern_0"
      [] index = 1 -> "pattern_1"
      [] index = 2 -> "pattern_2"
      [] index = 3 -> "pattern_3"

\* the whole-file scan over MINIFIED_GQL_PATTERNS, lines 348-367
RECURSIVE WholeFileScan(_, _, _)
WholeFileScan(L, matches, msg) ==
    IF matches = << >> THEN L
    ELSE LET m == Head(matches)
         IN  WholeFileScan(
                 IF Len(m.text) > 30 /\ m.text \notin L.detected
                 THEN [ ops |-> StoreFound(L.ops,
                                   [ operation |-> m.text,
                                     name |-> IF m.name = "" THEN PatternName(m.index)
                                              ELSE m.name,
                                     context |-> PatternContext(m.index) ],
                                   msg.filePath, OriginOr(msg.origin, msg.filePath)),
                        detected |-> L.detected \cup { m.text } ]
                 ELSE L,
                 Tail(matches), msg)

\* the parse failed: the catch of lines 466-472, which discards what the scans stored
AstPassDiscarding(L, msg, aggressive) ==
    IF ~msg.code.parses THEN [ L EXCEPT !.ops = << >> ]
    ELSE LET L1 == IF aggressive
                   THEN ScanSpans(L, msg.code.scan.astStrings, "ast_string", aggressive,
                                  msg.filePath, OriginOr(msg.origin, msg.filePath))
                   ELSE L
         IN  [ L1 EXCEPT !.ops = TraverseAst(@, msg.code, msg.filePath,
                                             OriginOr(msg.origin, msg.filePath)) ]

\* parser.parse and traverse inside the inner try, lines 370-472 (in the files
\* described, string literals precede the tagged templates)
AstPass(L, msg, aggressive) ==
    IF ~msg.code.parses THEN L
    ELSE LET L1 == IF aggressive
                   THEN ScanSpans(L, msg.code.scan.astStrings, "ast_string", aggressive,
                                  msg.filePath, OriginOr(msg.origin, msg.filePath))
                   ELSE L
         IN  [ L1 EXCEPT !.ops = TraverseAst(@, msg.code, msg.filePath,
                                             OriginOr(msg.origin, msg.filePath)) ]

\* whether the handler runs each scan
RunsStringScan(msg, aggressive) == aggressive \/ IsLikelyMinified(msg.code)
RunsWholeFileScan(msg, aggressive) == aggressive

\* the scan whose exception ends the outer try ("none": no exception reaches the
\* outer catch)
Thrown(msg, aggressive) ==
    CASE msg.code.scan.fault = "strings" /\ RunsStringScan(msg, aggressive) -> "strings"
      [] msg.code.scan.fault = "wholefile" /\ RunsWholeFileScan(msg, aggressive) -> "wholefile"
      [] OTHER -> "none"

\* an outer catch that discards what was stored before the exception
CaughtDiscarding(L) == [ L EXCEPT !.ops = << >> ]

\* the outer catch (lines 473-477) leaves the operations map as it is
Caught(L) == L

\* the body of the handler, lines 333-477
HandlerBody(msg, aggressive) ==
    LET L0 == [ ops |-> << >>, detected |-> {} ]
        L1 == CommentScan(L0, msg)
        t  == Thrown(msg, aggressive)
    IN  IF t = "strings" THEN Caught(L1)
        ELSE LET L2 == IF RunsStringScan(msg, aggressive)
                       THEN AnalyzeStringLiterals(L1, msg, aggressive) ELSE L1
             IN  IF t = "wholefile" THEN Caught(L2)
                 ELSE LET L3 == IF RunsWholeFileScan(msg, aggressive)
                                THEN WholeFileScan(L2, msg.code.scan.patterns, msg)
                                ELSE L2
                      IN  AstPass(L3, msg, aggressive)

\* the local operations map when the handler reaches line 479
WorkerOperations(msg) == HandlerBody(msg, options.aggressive).ops

Diagnostic(t) ==
    [ error |-> TRUE, hasOperations |-> FALSE, operations |-> << >>, task |-> t ]

ResultMessage(t, ops) ==
    [ error |-> FALSE, hasOperations |-> TRUE, operations |-> ops, task |-> t ]

\* every parentPort.postMessage of one run of the handler, in order
WorkerPosts(msg, verbose) ==
    LET ops == MapValues(WorkerOperations(msg))
        t   == Thrown(msg, options.aggressive)
    IN  (IF verbose /\ IsLikelyMinified(msg.code) THEN << Diagnostic(msg.task) >> ELSE << >>)
        \o (IF verbose /\ t = "none" /\ ~msg.code.parses
            THEN << Diagnostic(msg.task) >> ELSE << >>)
        \o (IF verbose /\ t # "none" THEN << Diagnostic(msg.task) >> ELSE << >>)
        \o (IF verbose /\ Len(ops) > 0 THEN << Diagnostic(msg.task) >> ELSE << >>)
        \o << ResultMessage(msg.task, ops) >>

-----------------------------------------------------------------------------
(* The main thread: processFiles *)

Tasks == 1..Len(entries)

Min(a, b) == IF a < b THEN a ELSE b

\* the state processEntry and the limiter work on
MainState ==
    [ workers |-> workers, listeners |-> listeners, queue |-> queue,
      activeCount |-> activeCount, status |-> status, assigned |-> assigned,
      resolved |-> resolved ]

\* processEntry(entry) up to the call of fs.stat: pop a worker, attach the handler
ProcessEntry(M, t) ==
    IF M.workers = << >>
    THEN [M EXCEPT !.status[t] = "skipped", !.resolved[t] = TRUE]
    ELSE LET worker == M.workers[Len(M.workers)]
         IN  [M EXCEPT !.workers = SubSeq(@, 1, Len(@) - 1),
                       !.listeners[worker] = Append(@, t),
                       !.assigned[t] = worker,
                       !.status[t] = "reading"]

\* p-limit: dequeue one task and run it
RunNext(M) ==
    ProcessEntry([M EXCEPT !.queue = Tail(@), !.activeCount = @ + 1], Head(M.queue))

\* p-limit next(), once for each of n settled tasks; a task that returned
\* without a worker settles at once and calls next() in its turn
RECURSIVE Drain(_, _)
Drain(M, n) ==
    IF n = 0 THEN M
    ELSE LET M1 == [M EXCEPT !.activeCount = @ - 1]
         IN  IF M1.queue = << >> THEN Drain(M1, n - 1)
             ELSE LET t  == Head(M1.queue)
                      M2 == RunNext(M1)
                  IN  Drain(M2, IF M2.status[t] = "skipped" THEN n ELSE n - 1)

\* p-limit enqueue, the k microtasks that follow entries.map(entry => limit(...))
RECURSIVE Enqueued(_, _)
Enqueued(M, k) ==
    IF k = 0 THEN M
    ELSE IF M.activeCount < options.concurrency /\ M.queue # << >>
         THEN LET t  == Head(M.queue)
                  M2 == RunNext(M)
              IN  IF M2.status[t] = "skipped"
                  THEN Enqueued(Drain(M2, 1), k - 1)
                  ELSE Enqueued(M2, k - 1)
         ELSE Enqueued(M, k - 1)

AllResolved(M) == \A t \in Tasks : M.resolved[t]

\* the microtasks that follow an event: the limiter admits the next tasks and,
\* when every task has settled, processFiles terminates the free workers and returns
Settle(M, n, ops, value) ==
    LET M2 == Drain(M, n)
    IN  /\ workers' = M2.workers
        /\ listeners' = M2.listeners
        /\ queue' = M2.queue
        /\ activeCount' = M2.activeCount
        /\ status' = M2.status
        /\ assigned' = M2.assigned
        /\ resolved' = M2.resolved
        /\ allOperations' = ops
        /\ bar' = value
        /\ IF AllResolved(M2)
           THEN /\ pc' = "done"
                /\ terminated' = { M2.workers[i] : i \in 1..Len(M2.workers) }
                /\ result' = MapValues(ops)
           ELSE UNCHANGED << pc, terminated, result >>

\* main, line 636: fileEntries = paths.map(p => ({ filePath: p, origin: p }))
FileEntry(p) == [ filePath |-> p, origin |-> p ]

\* main, lines 632-636: the distinct paths fast-glob returns, in some order
FileEntries ==
    { e \in UNION { [ 1..n -> { FileEntry(p) : p \in Paths } ] : n \in 1..MaxTasks } :
        \A i, j \in 1..Len(e) : e[i] = e[j] => i = j }

\* the state of the main thread and of the workers before processFiles runs
Idle ==
    /\ pc = "idle"
    /\ workers = << >>
    /\ created = 0
    /\ listeners = << >>
    /\ allOperations = << >>
    /\ bar = 0
    /\ queue = << >>
    /\ activeCount = 0
    /\ status = [ t \in Tasks |-> "queued" ]
    /\ assigned = [ t \in Tasks |-> 0 ]
    /\ resolved = [ t \in Tasks |-> FALSE ]
    /\ inbox = << >>
    /\ outbox = << >>
    /\ finalReceived = [ t \in Tasks |-> FALSE ]
    /\ arrived = << >>
    /\ posts = [ t \in Tasks |-> 0 ]
    /\ terminated = {}
    /\ result = << >>

\* no function is being run on its own
Parked ==
    /\ handler = [ pc |-> "off" ]
    /\ normalization = [ pc |-> "off" ]
    /\ inference = [ pc |-> "off" ]
    /\ cli = [ pc |-> "off" ]
    /\ call = [ pc |-> "off" ]
    /\ urlList = [ pc |-> "off" ]

\* (the scans of aggressive mode are followed in SpecHandler)
Init ==
    /\ options \in [ concurrency : Concurrencies, verbose : BOOLEAN, aggressive : {FALSE} ]
    /\ entries \in FileEntries
    /\ run = 1
    /\ firstResult = << >>
    /\ Idle
    /\ Parked

\* processFiles, lines 496-509 and the synchronous part of line 564
Start ==
    /\ pc = "idle"
    /\ LET n  == Min(options.concurrency, Len(entries))
           M0 == [ MainState EXCEPT
                     !.workers = [ i \in 1..n |-> i ],
                     !.listeners = [ i \in 1..n |-> << >> ],
                     !.queue = [ i \in 1..Len(entries) |-> i ] ]
           M1 == Enqueued(M0, Len(entries))
       IN  /\ created' = n
           /\ inbox' = [ i \in 1..n |-> << >> ]
           /\ outbox' = [ i \in 1..n |-> << >> ]
           /\ workers' = M1.workers
           /\ listeners' = M1.listeners
           /\ queue' = M1.queue
           /\ activeCount' = M1.activeCount
           /\ status' = M1.status
           /\ assigned' = M1.assigned
           /\ resolved' = M1.resolved
    /\ pc' = "draining"
    /\ bar' = 0
    /\ UNCHANGED << unitVars, options, entries, allOperations, finalReceived, arrived, posts,
                    terminated, result, run, firstResult >>

\* fs.readFile / the read stream delivered the content: worker.postMessage
ReadOk(t) ==
    /\ pc = "draining"
    /\ status[t] = "reading"
    /\ Files[entries[t].filePath].readable
    /\ inbox' = [ inbox EXCEPT ![assigned[t]] =
                    Append(@, [ filePath |-> entries[t].filePath,
                                code |-> CodeOf(entries[t].filePath),
                                origin |-> entries[t].origin,
                                task |-> t ]) ]
    /\ status' = [ status EXCEPT ![t] = "posted" ]
    /\ UNCHANGED << unitVars, options, entries, pc, workers, created, listeners, allOperations,
                    bar, queue, activeCount, assigned, resolved, outbox,
                    finalReceived, arrived, posts, terminated, result, run,
                    firstResult >>

\* a read error that gives the worker back and leaves the task's promise pending
ReadErrorPending(t) ==
    /\ pc = "draining"
    /\ status[t] = "reading"
    /\ ~Files[entries[t].filePath].readable
    /\ workers' = Append(workers, assigned[t])
    /\ status' = [ status EXCEPT ![t] = "failed" ]
    /\ UNCHANGED << unitVars, options, entries, pc, created, listeners, allOperations,
                    bar, queue, activeCount, assigned, resolved, inbox, outbox,
                    finalReceived, arrived, posts, terminated, result, run,
                    firstResult >>

\* a read error that puts the task back into the limiter's queue (a retry)
ReadErrorRequeue(t) ==
    /\ pc = "draining"
    /\ status[t] = "reading"
    /\ ~Files[entries[t].filePath].readable
    /\ LET M == [ MainState EXCEPT !.workers = Append(@, assigned[t]),
                                   !.status[t] = "queued",
                                   !.queue = Append(@, t) ]
       IN  Settle(M, 1, allOperations, bar)
    /\ UNCHANGED << unitVars, options, entries, created, inbox, outbox, finalReceived, arrived,
                    posts, run, firstResult >>

\* the read failed (lines 543-546 and 549-552): workers.push(worker); resolve()
ReadError(t) ==
    /\ pc = "draining"
    /\ status[t] = "reading"
    /\ ~Files[entries[t].filePath].readable
    /\ LET M == [ MainState EXCEPT !.workers = Append(@, assigned[t]),
                                   !.status[t] = "failed",
                                   !.resolved[t] = TRUE ]
       IN  Settle(M, IF resolved[t] THEN 0 ELSE 1, allOperations, bar)
    /\ UNCHANGED << unitVars, options, entries, created, inbox, outbox, finalReceived, arrived,
                    posts, run, firstResult >>

\* a worker thread takes the next task message and runs its handler to the end
WorkerHandle(w) ==
    /\ pc = "draining"
    /\ inbox[w] # << >>
    /\ outbox' = [ outbox EXCEPT ![w] = @ \o WorkerPosts(Head(inbox[w]), options.verbose) ]
    /\ inbox' = [ inbox EXCEPT ![w] = Tail(@) ]
    /\ posts' = [ posts EXCEPT ![Head(inbox[w]).task] =
                    @ + Len(WorkerPosts(Head(inbox[w]), options.verbose)) ]
    /\ UNCHANGED << unitVars, options, entries, pc, workers, created, listeners, allOperations,
                    bar, queue, activeCount, status, assigned, resolved,
                    finalReceived, arrived, terminated, result, run, firstResult >>

\* the merge with the existence test left out (the last writer wins)
RECURSIVE MergeOperationsLastWins(_, _)
MergeOperationsLastWins(all, ops) ==
    IF ops = << >> THEN all
    ELSE MergeOperationsLastWins(MapSet(all, Normalize(Head(ops).operation), Head(ops)),
                                 Tail(ops))

\* operations.forEach(op => ...) of the main thread's handler, lines 519-524
RECURSIVE MergeOperations(_, _)
MergeOperations(all, ops) ==
    IF ops = << >> THEN all
    ELSE LET op        == Head(ops)
             signature == Normalize(op.operation)
         IN  MergeOperations(IF ~MapHas(all, signature)
                             THEN MapSet(all, signature, op)
                             ELSE all,
                             Tail(ops))

\* a 'message' handler that resolves the task and keeps the worker out of the
\* free list
OnMessageKeepingWorker(L, w, t, msg) ==
    [ all     |-> IF msg.hasOperations THEN MergeOperations(L.all, msg.operations)
                  ELSE L.all,
      value   |-> L.value + 1,
      M       |-> [ L.M EXCEPT !.resolved[t] = TRUE ],
      settled |-> IF L.M.resolved[t] THEN L.settled ELSE L.settled + 1 ]

\* one 'message' handler (lines 516-529), attached for task t on worker w
\* L = [all, value, M, settled]
OnMessage(L, w, t, msg) ==
    [ all     |-> IF msg.hasOperations THEN MergeOperations(L.all, msg.operations)
                  ELSE L.all,
      value   |-> L.value + 1,
      M       |-> [ L.M EXCEPT !.workers = Append(@, w), !.resolved[t] = TRUE ],
      settled |-> IF L.M.resolved[t] THEN L.settled ELSE L.settled + 1 ]

\* worker.emit('message', msg): every handler attached to w, in attachment order
RECURSIVE Emit(_, _, _, _)
Emit(L, w, ls, msg) ==
    IF ls = << >> THEN L
    ELSE Emit(OnMessage(L, w, Head(ls), msg), w, Tail(ls), msg)

\* the main thread receives the next message of worker w
Receive(w) ==
    /\ pc = "draining"
    /\ outbox[w] # << >>
    /\ LET msg == Head(outbox[w])
           L   == Emit([ all |-> allOperations, value |-> bar, M |-> MainState,
                         settled |-> 0 ],
                       w, listeners[w], msg)
       IN  /\ Settle(L.M, L.settled, L.all, L.value)
           /\ finalReceived' = IF msg.hasOperations
                               THEN [ finalReceived EXCEPT ![msg.task] = TRUE ]
                               ELSE finalReceived
           /\ arrived' = IF msg.hasOperations THEN Append(arrived, msg.operations)
                         ELSE arrived
    /\ outbox' = [ outbox EXCEPT ![w] = Tail(@) ]
    /\ UNCHANGED << unitVars, options, entries, created, inbox, posts, run, firstResult >>

Next ==
    \/ Start
    \/ \E t \in Tasks : ReadOk(t)
    \/ \E t \in Tasks : ReadError(t)
    \/ \E w \in 1..created : WorkerHandle(w)
    \/ \E w \in 1..created : Receive(w)

Spec == Init /\ [][Next]_vars

-----------------------------------------------------------------------------
(* The worker's message handler run on one message: one scan at a time,    *)
(* and extractFromComments one GQL_PATTERN match at a time                 *)

WorkerMessages ==
    { [ filePath |-> p, code |-> CodeOf(p), origin |-> o, task |-> 1 ] :
        p \in WorkerPaths, o \in {"", "u"} }

\* the records stored by the running call of extractOperation refer to the
\* call's variables object: they show what the object holds
Aliased(operations, stored, variables) ==
    [ i \in 1..Len(operations) |->
        IF operations[i].key \in stored
        THEN [ operations[i] EXCEPT !.value.variables = variables ]
        ELSE operations[i] ]

\* a handler that goes on with the map and the set of the message before
KeptLocals(previous) == previous

\* const operations = new Map(); const detectedStrings = new Set(); lines 158-159,
\* run for each message
HandlerLocals(previous) == [ ops |-> << >>, detected |-> {} ]

InitHandler ==
    /\ options \in [ concurrency : {1}, verbose : BOOLEAN, aggressive : BOOLEAN ]
    /\ entries = << >>
    /\ run = 1
    /\ firstResult = << >>
    /\ Idle
    /\ normalization = [ pc |-> "off" ]
    /\ inference = [ pc |-> "off" ]
    /\ cli = [ pc |-> "off" ]
    /\ call = [ pc |-> "off" ]
    /\ urlList = [ pc |-> "off" ]
    /\ \E msg \in WorkerMessages :
          handler = [ pc |-> "start", msg |-> msg, before |-> << >>,
                      local |-> HandlerLocals([ ops |-> << >>, detected |-> {} ]),
                      posted |-> << >>, thrown |-> "none", scans |-> << >>,
                      text |-> 1, match |-> 1, variables |-> << >>, stored |-> {} ]

HandlerFrame == UNCHANGED << options, mainVars, normalization, inference, cli, call, urlList >>

\* lines 333-339 and the call of extractFromComments, line 341
HStart ==
    /\ handler.pc = "start"
    /\ handler' = [ handler EXCEPT
          !.pc = "comments",
          !.scans = Append(@, "comments"),
          !.posted = IF options.verbose /\ IsLikelyMinified(handler.msg.code)
                     THEN Append(@, Diagnostic(handler.msg.task)) ELSE @ ]
    /\ HandlerFrame

\* one iteration of matches.forEach in extractOperation, called by extractFromComments
HCommentMatch ==
    /\ handler.pc = "comments"
    /\ handler.text <= Len(handler.msg.code.comments)
    /\ handler.match <= Len(handler.msg.code.comments[handler.text])
    /\ LET m    == handler.msg.code.comments[handler.text][handler.match]
           V    == InferVariables(handler.variables, m.args)
           ops1 == Aliased(handler.local.ops, handler.stored, V)
           sig  == Normalize(Repaired(m.fullMatch))
       IN  handler' = [ handler EXCEPT
              !.variables = V,
              !.local.ops = ExtractMatch(ops1, m, V, handler.msg.filePath,
                                         OriginOr(handler.msg.origin, handler.msg.filePath)),
              !.stored = IF MapHas(ops1, sig) THEN @ ELSE @ \cup { sig },
              !.match = @ + 1 ]
    /\ HandlerFrame

\* extractOperation returns; the next comment gets a new variables object
HCommentReturn ==
    /\ handler.pc = "comments"
    /\ handler.text <= Len(handler.msg.code.comments)
    /\ handler.match > Len(handler.msg.code.comments[handler.text])
    /\ handler' = [ handler EXCEPT !.text = @ + 1, !.match = 1,
                                   !.variables = << >>, !.stored = {} ]
    /\ HandlerFrame

\* extractFromComments returns, line 341
HCommentsDone ==
    /\ handler.pc = "comments"
    /\ handler.text > Len(handler.msg.code.comments)
    /\ handler' = [ handler EXCEPT !.pc = "strings" ]
    /\ HandlerFrame

\* the outer catch, lines 473-477
HCatch(scan) ==
    [ handler EXCEPT
        !.pc = "report",
        !.thrown = scan,
        !.scans = Append(@, scan),
        !.local = Caught(@),
        !.posted = IF options.verbose THEN Append(@, Diagnostic(handler.msg.task)) ELSE @ ]

\* lines 343-345
HStrings ==
    /\ handler.pc = "strings"
    /\ handler' =
          IF ~RunsStringScan(handler.msg, options.aggressive)
          THEN [ handler EXCEPT !.pc = "wholefile" ]
          ELSE IF handler.msg.code.scan.fault = "strings"
               THEN HCatch("strings")
               ELSE [ handler EXCEPT
                        !.pc = "wholefile",
                        !.scans = Append(@, "strings"),
                        !.local = AnalyzeStringLiterals(@, handler.msg, options.aggressive) ]
    /\ HandlerFrame

\* lines 347-368
HWholeFile ==
    /\ handler.pc = "wholefile"
    /\ handler' =
          IF ~RunsWholeFileScan(handler.msg, options.aggressive)
          THEN [ handler EXCEPT !.pc = "ast" ]
          ELSE IF handler.msg.code.scan.fault = "wholefile"
               THEN HCatch("wholefile")
               ELSE [ handler EXCEPT
                        !.pc = "ast",
                        !.scans = Append(@, "wholefile"),
                        !.local = WholeFileScan(@, handler.msg.code.scan.patterns,
                                                handler.msg) ]
    /\ HandlerFrame

\* the inner try and its catch, lines 370-472
HAst ==
    /\ handler.pc = "ast"
    /\ handler' = [ handler EXCEPT
          !.pc = "report",
          !.scans = Append(@, "ast"),
          !.local = AstPass(@, handler.msg, options.aggressive),
          !.posted = IF options.verbose /\ ~handler.msg.code.parses
                     THEN Append(@, Diagnostic(handler.msg.task)) ELSE @ ]
    /\ HandlerFrame

\* lines 479-490
HReport ==
    /\ handler.pc = "report"
    /\ handler' = [ handler EXCEPT
          !.pc = "done",
          !.posted = (IF options.verbose /\ Len(handler.local.ops) > 0
                      THEN Append(@, Diagnostic(handler.msg.task)) ELSE @)
                     \o << ResultMessage(handler.msg.task, MapValues(handler.local.ops)) >> ]
    /\ HandlerFrame

\* the worker's next task message arrives, line 157
HNextMessage ==
    /\ handler.pc = "done"
    /\ Len(handler.before) + 1 < MaxMessages
    /\ \E msg \in WorkerMessages :
          handler' = [ pc |-> "start", msg |-> msg,
                       before |-> Append(handler.before, handler.msg),
                       local |-> HandlerLocals(handler.local),
                       posted |-> << >>, thrown |-> "none", scans |-> << >>,
                       text |-> 1, match |-> 1, variables |-> << >>, stored |-> {} ]
    /\ HandlerFrame

NextHandler ==
    \/ HNextMessage
    \/ HStart
    \/ HCommentMatch
    \/ HCommentReturn
    \/ HCommentsDone
    \/ HStrings
    \/ HWholeFile
    \/ HAst
    \/ HReport

SpecHandler == InitHandler /\ [][NextHandler]_vars

\* the handler run in steps posts what the handler run in one piece posts
HandlerAgrees ==
    handler.pc = "done" =>
        /\ handler.posted = WorkerPosts(handler.msg, options.verbose)
        /\ handler.local.ops = WorkerOperations(handler.msg)
        /\ handler.thrown = Thrown(handler.msg, options.aggressive)

-----------------------------------------------------------------------------
(* Normalisation of a text, and the keys the worker and the main thread    *)
(* store it under                                                          *)

Texts == UNION { [ 1..n -> {"a", "}", " ", "\n"} ] : n \in 0..MaxTextLen }

InitText ==
    /\ options \in [ concurrency : {1}, verbose : {FALSE}, aggressive : {FALSE} ]
    /\ entries = << >>
    /\ run = 1
    /\ firstResult = << >>
    /\ Idle
    /\ handler = [ pc |-> "off" ]
    /\ inference = [ pc |-> "off" ]
    /\ cli = [ pc |-> "off" ]
    /\ call = [ pc |-> "off" ]
    /\ urlList = [ pc |-> "off" ]
    /\ \E t \in Texts :
          normalization = [ pc |-> "text", text |-> t, once |-> << >>, twice |-> << >>,
                            local |-> << >>, all |-> << >> ]

TextFrame == UNCHANGED << options, mainVars, handler, inference, cli, call, urlList >>

\* the text is normalised, and the result once more
NormalizeText ==
    /\ normalization.pc = "text"
    /\ normalization' = [ normalization EXCEPT
          !.pc = "normalized",
          !.once = Normalize(normalization.text),
          !.twice = Normalize(Normalize(normalization.text)) ]
    /\ TextFrame

\* the worker stores the text: as a GQL_PATTERN match through extractOperation,
\* or as an item found by a scan
WorkerStores ==
    /\ normalization.pc = "normalized"
    /\ \/ normalization' = [ normalization EXCEPT
             !.pc = "stored",
             !.local = ExtractOperation(<< >>, << Match(normalization.text, "N") >>,
                                        "a.js", "a.js") ]
       \/ normalization' = [ normalization EXCEPT
             !.pc = "stored",
             !.local = StoreFound(<< >>, [ operation |-> normalization.text,
                                           name |-> "N", context |-> "pattern_0" ],
                                  "a.js", "a.js") ]
    /\ TextFrame

\* the main thread's handler merges the worker's records
MainStores ==
    /\ normalization.pc = "stored"
    /\ normalization' = [ normalization EXCEPT
          !.pc = "merged",
          !.all = MergeOperations(<< >>, MapValues(normalization.local)) ]
    /\ TextFrame

NextText ==
    \/ NormalizeText
    \/ WorkerStores
    \/ MainStores

SpecText == InitText /\ [][NextText]_vars

-----------------------------------------------------------------------------
(* Variable inference from an argument list *)

NameId    == << "i", "d" >>
NameCount == << "c", "o", "u", "n", "t" >>

\* the types declared, each with the value the heuristic gives it
DeclaredTypes ==
    { [ type |-> TString \o << "!" >>, value |-> SampleString ],
      [ type |-> TInt, value |-> Zero ],
      [ type |-> TFloat, value |-> Zero ],
      [ type |-> TBoolean, value |-> False ],
      [ type |-> TID \o << "!" >>, value |-> SampleId ],
      [ type |-> << "[" >> \o TUser \o << "]" >>, value |-> EmptyList ],
      [ type |-> TUser, value |-> Null ] }

Declarations ==
    { [ name |-> n, type |-> d.type, value |-> d.value ] :
        n \in { NameId, NameCount }, d \in DeclaredTypes }

\* the argument text of a list of declarations: name: Type, name: Type
RECURSIVE Render(_)
Render(decls) ==
    IF decls = << >> THEN << >>
    ELSE Head(decls).name \o << ":", " " >> \o Head(decls).type
             \o (IF Len(decls) > 1 THEN << ",", " " >> ELSE << >>)
             \o Render(Tail(decls))

InitInference ==
    /\ options \in [ concurrency : {1}, verbose : {FALSE}, aggressive : {FALSE} ]
    /\ entries = << >>
    /\ run = 1
    /\ firstResult = << >>
    /\ Idle
    /\ handler = [ pc |-> "off" ]
    /\ normalization = [ pc |-> "off" ]
    /\ cli = [ pc |-> "off" ]
    /\ call = [ pc |-> "off" ]
    /\ urlList = [ pc |-> "off" ]
    /\ \E d \in UNION { [ 1..n -> Declarations ] : n \in 0..MaxArgs } :
          inference = [ pc |-> "declared", declared |-> d, args |-> << >>,
                        variables |-> << >> ]

InferenceFrame == UNCHANGED << options, mainVars, handler, normalization, cli, call, urlList >>

\* GQL_PATTERN's second group: the text between the parentheses
MatchArguments ==
    /\ inference.pc = "declared"
    /\ inference' = [ inference EXCEPT !.pc = "matched",
                                       !.args = Render(inference.declared) ]
    /\ InferenceFrame

\* the argument loop of extractOperation on a new variables object
InferFromArguments ==
    /\ inference.pc = "matched"
    /\ inference' = [ inference EXCEPT
          !.pc = "inferred",
          !.variables = InferVariables(<< >>, inference.args) ]
    /\ InferenceFrame

NextInference ==
    \/ MatchArguments
    \/ InferFromArguments

SpecInference == InitInference /\ [][NextInference]_vars

-----------------------------------------------------------------------------
(* The --concurrency option: commander's parse, then validateRequiredVariables *)

DEFAULT_CONCURRENCY == 4

Digits == << "0", "1", "2", "3", "4", "5", "6", "7", "8", "9" >>

DigitValue(c) == (CHOOSE i \in 1..Len(Digits) : Digits[i] = c) - 1

\* the number a string of decimal digits denotes
RECURSIVE Decimal(_)
Decimal(s) ==
    IF s = << >> THEN 0
    ELSE 10 * Decimal(SubSeq(s, 1, Len(s) - 1)) + DigitValue(s[Len(s)])

\* the longest prefix of s made of digits of the radix
RECURSIVE RadixPrefix(_, _)
RadixPrefix(s, radix) ==
    IF s # << >> /\ DigitValue(Head(s)) < radix
    THEN << Head(s) >> \o RadixPrefix(Tail(s), radix)
    ELSE << >>

RECURSIVE RadixValue(_, _)
RadixValue(s, radix) ==
    IF s = << >> THEN 0
    ELSE radix * RadixValue(SubSeq(s, 1, Len(s) - 1), radix) + DigitValue(s[Len(s)])

\* a JavaScript number: NaN, or the integer n
NaN == [ nan |-> TRUE, n |-> 0 ]

Number(n) == [ nan |-> FALSE, n |-> n ]

\* parseInt(string, radix) for a string of decimal digits and a radix up to 10
ParseInt(s, radix) ==
    LET r == IF radix = 0 THEN 10 ELSE radix
    IN  IF r < 2 \/ r > 36 \/ RadixPrefix(s, r) = << >> THEN NaN
        ELSE Number(RadixValue(RadixPrefix(s, r), r))

\* the command line: without --concurrency, or with a string of digits as its value
Arguments ==
    { [ given |-> FALSE, value |-> << >> ] }
        \cup { [ given |-> TRUE, value |-> v ] :
                  v \in UNION { [ 1..n -> Range(Digits) ] : n \in 1..MaxDigits } }

InitCli ==
    /\ options \in [ concurrency : {1}, verbose : {FALSE}, aggressive : {FALSE} ]
    /\ entries = << >>
    /\ run = 1
    /\ firstResult = << >>
    /\ Idle
    /\ handler = [ pc |-> "off" ]
    /\ normalization = [ pc |-> "off" ]
    /\ inference = [ pc |-> "off" ]
    /\ call = [ pc |-> "off" ]
    /\ urlList = [ pc |-> "off" ]
    /\ \E a \in Arguments :
          cli = [ pc |-> "argv", given |-> a.given, value |-> a.value,
                  concurrency |-> Number(DEFAULT_CONCURRENCY),
                  files |-> 0, limit |-> 0, pool |-> 0 ]

CliFrame == UNCHANGED << options, mainVars, handler, normalization, inference, call, urlList >>

\* program.option('--concurrency <n>', ..., parseInt, DEFAULT_CONCURRENCY).parse:
\* commander calls the option's function with the argument and the previous
\* value of the option, which is the default at the first occurrence
ParseArgv ==
    /\ cli.pc = "argv"
    /\ cli' = [ cli EXCEPT
          !.pc = "parsed",
          !.concurrency = IF ~cli.given THEN Number(DEFAULT_CONCURRENCY)
                          ELSE ParseInt(cli.value, DEFAULT_CONCURRENCY) ]
    /\ CliFrame

\* validateRequiredVariables, lines 107-115
ValidateConcurrency ==
    /\ cli.pc = "parsed"
    /\ cli' = [ cli EXCEPT
          !.pc = IF cli.concurrency.nan THEN "exit"
                 ELSE IF cli.concurrency.n < 1 THEN "exit" ELSE "valid" ]
    /\ CliFrame

\* processFiles, lines 507-509: the limiter and the pool
CreatePool ==
    /\ cli.pc = "valid"
    /\ \E n \in 1..MaxTasks :
          cli' = [ cli EXCEPT !.pc = "running", !.files = n,
                              !.limit = cli.concurrency.n,
                              !.pool = Min(cli.concurrency.n, n) ]
    /\ CliFrame

NextCli ==
    \/ ParseArgv
    \/ ValidateConcurrency
    \/ CreatePool

SpecCli == InitCli /\ [][NextCli]_vars

-----------------------------------------------------------------------------
(* The CallExpression visitor on one call of an HTTP client whose second   *)
(* argument is an object with a body or data property.  The body text is   *)
(* described by what JSON.parse gives for it and by the GQL_PATTERN        *)
(* matches of the raw text; a field that holds a string is described by    *)
(* the GQL_PATTERN matches of the string.                                  *)

NameN == << "n" >>

\* a field of the decoded object: absent, a string, or a number
NoField == [ kind |-> "absent", matches |-> << >> ]
StringField(matches) == [ kind |-> "string", matches |-> matches ]
NumberField == [ kind |-> "number", matches |-> << >> ]

\* the values a variables object of the payload holds, as JSON text
PayloadValues == { "\"\"", Zero, False, Null, "\"x\"", "7" }

\* the variables objects of the payload: over id and n, in this order
PayloadVariables ==
    { << >> }
    \cup { << [ key |-> k, value |-> v ] >> : k \in { NameId, NameN }, v \in PayloadValues }
    \cup { << [ key |-> NameId, value |-> v ], [ key |-> NameN, value |-> w ] >> :
              v \in PayloadValues, w \in PayloadValues }

\* the texts that decode to an object:
\* {"query": ..., "mutation": ..., "variables": {...}}, each member optional
ObjectBodies ==
    { [ decodes |-> TRUE, isNull |-> FALSE, query |-> q, mutation |-> m,
        hasVariables |-> h, variables |-> v, raw |-> << >> ] :
        q \in { NoField, NumberField, StringField(<< MatchArgs(QC1, "C", QCArgs) >>) },
        m \in { NoField, StringField(<< MatchArgs(BarOp, "Bar", BarArgs) >>) },
        h \in BOOLEAN, v \in PayloadVariables }

\* the text null, which decodes to null
NullBody ==
    [ decodes |-> TRUE, isNull |-> TRUE, query |-> NoField, mutation |-> NoField,
      hasVariables |-> FALSE, variables |-> << >>, raw |-> << >> ]

\* texts JSON.parse rejects: an operation as it stands, and a text without any
RawBodies ==
    { [ decodes |-> FALSE, isNull |-> FALSE, query |-> NoField, mutation |-> NoField,
        hasVariables |-> FALSE, variables |-> << >>, raw |-> r ] :
        r \in { << MatchArgs(QC1, "C", QCArgs) >>,
                << MatchArgs(BarOp, "Bar", BarArgs) >>,
                << >> } }

Bodies ==
    { b \in ObjectBodies : b.hasVariables \/ b.variables = << >> }
        \cup { NullBody } \cup RawBodies

\* the properties of a variables: {...} member of the second argument, each
\* with the type of its value's node
ConfigVariables ==
    { << >>,
      << [ key |-> NameId, type |-> "StringLiteral", value |-> "\"x\"" ] >>,
      << [ key |-> NameId, type |-> "NumericLiteral", value |-> "7" ],
         [ key |-> NameN, type |-> "NullLiteral", value |-> Null ] >> }

\* extractVariablesFromCode(node), lines 315-331: the members whose value node
\* has type 'Literal'
RECURSIVE ExtractVariablesFromCode(_)
ExtractVariablesFromCode(props) ==
    IF props = << >> THEN << >>
    ELSE LET rest == ExtractVariablesFromCode(Tail(props))
         IN  IF Head(props).type = "Literal"
             THEN MapSet(rest, Head(props).key, Head(props).value)
             ELSE rest

InitCall ==
    /\ options \in [ concurrency : {1}, verbose : {FALSE}, aggressive : {FALSE} ]
    /\ entries = << >>
    /\ run = 1
    /\ firstResult = << >>
    /\ Idle
    /\ handler = [ pc |-> "off" ]
    /\ normalization = [ pc |-> "off" ]
    /\ inference = [ pc |-> "off" ]
    /\ cli = [ pc |-> "off" ]
    /\ urlList = [ pc |-> "off" ]
    /\ \E b \in Bodies, c \in ConfigVariables :
          call = [ pc |-> "visit", body |-> b, config |-> c,
                   variables |-> << >>, operations |-> << >>,
                   source |-> "none", thrown |-> FALSE,
                   given |-> << >>, after |-> << >> ]

CallFrame == UNCHANGED << options, mainVars, handler, normalization, inference, cli, urlList >>

\* lines 409-443: bodyProp is found, variables = extractVariablesFromCode(configArg)
VisitCall ==
    /\ call.pc = "visit"
    /\ call' = [ call EXCEPT !.pc = "parse",
                              !.variables = ExtractVariablesFromCode(call.config) ]
    /\ CallFrame

\* extractOperation(text, variables) called by the visitor; from is the place
\* of the call
CallExtract(from, matches, variables) ==
    [ call EXCEPT
        !.pc = "done",
        !.source = from,
        !.given = variables,
        !.after = CallVariables(variables, matches),
        !.operations = ExtractOperationWith(@, matches, variables, "x.js", "x.js") ]

\* lines 444-448: JSON.parse(bodyText), then json.query
ParseBody ==
    /\ call.pc = "parse"
    /\ call' =
          IF ~call.body.decodes \/ call.body.isNull \/ call.body.query.kind = "number"
          THEN \* JSON.parse throws, null has no query, or text.matchAll is not a function
               [ call EXCEPT !.pc = "catch", !.thrown = TRUE ]
          ELSE IF call.body.query.kind = "string"
               THEN CallExtract("query", call.body.query.matches,
                                IF call.body.hasVariables THEN call.body.variables
                                ELSE call.variables)
               ELSE [ call EXCEPT !.pc = "done" ]
    /\ CallFrame

\* the catch of lines 449-451: extractOperation(bodyText, variables)
CatchBody ==
    /\ call.pc = "catch"
    /\ call' = CallExtract("raw", call.body.raw, call.variables)
    /\ CallFrame

NextCall ==
    \/ VisitCall
    \/ ParseBody
    \/ CatchBody

SpecCall == InitCall /\ [][NextCall]_vars

-----------------------------------------------------------------------------
(* URL-list mode: processUrlList fetches each URL of the list into a file   *)
(* of the temporary directory, and processEntry reads each entry's file    *)

\* url.replace(/[^a-z0-9]/gi, '_').slice(0, 100), line 143
SafeFilenameLength == 100

Alnum ==
    { "a", "b", "c", "d", "e", "f", "g", "h", "i", "j", "k", "l", "m", "n", "o", "p",
      "q", "r", "s", "t", "u", "v", "w", "x", "y", "z",
      "A", "B", "C", "D", "E", "F", "G", "H", "I", "J", "K", "L", "M", "N", "O", "P",
      "Q", "R", "S", "T", "U", "V", "W", "X", "Y", "Z",
      "0", "1", "2", "3", "4", "5", "6", "7", "8", "9" }

\* url.replace(/[^a-z0-9]/gi, '_')
ReplaceNonAlnum(url) == [ i \in 1..Len(url) |-> IF url[i] \in Alnum THEN url[i] ELSE "_" ]

\* s.slice(0, n)
Slice(s, n) == SubSeq(s, 1, Min(n, Len(s)))

\* safeFilename, line 143
SafeFilename(url) ==
    Slice(ReplaceNonAlnum(url), SafeFilenameLength) \o << ".", "j", "s" >>

StartsWith(s, prefix) == Len(s) >= Len(prefix) /\ SubSeq(s, 1, Len(prefix)) = prefix

\* isRemotePath(p): /^https?:\/\//.test(p), lines 55-57
IsRemotePath(line) ==
    \/ StartsWith(line, << "h", "t", "t", "p", ":", "/", "/" >>)
    \/ StartsWith(line, << "h", "t", "t", "p", "s", ":", "/", "/" >>)

Host == << "h", "t", "t", "p", "s", ":", "/", "/", "h", "/" >>

\* the URLs of the lists: short ones, and two that agree on their first 100
\* characters
ShortUrls ==
    { Host \o path : path \in UNION { [ 1..n -> { "a", "-", "_" } ] : n \in 1..MaxPathLen } }

LongUrls ==
    { Host \o [ i \in 1..(SafeFilenameLength - Len(Host)) |-> "a" ] \o << c >> :
        c \in { "b", "c" } }

Urls == ShortUrls \cup LongUrls

\* the lines of a list file: URLs (one with blanks around it), a comment, a
\* local path and an empty line
ListLines ==
    Urls \cup { << " " >> \o Host \o << "a", " " >>,
                << "#" >> \o Host \o << "a" >>,
                << "a", ".", "j", "s" >>,
                << >> }

\* content.split('\n').map(line => line.trim()).filter(...), lines 121-123
RECURSIVE FilterUrls(_)
FilterUrls(lines) ==
    IF lines = << >> THEN << >>
    ELSE LET line == Trim(Head(lines))
         IN  (IF line # << >> /\ ~StartsWith(line, << "#" >>) /\ IsRemotePath(line)
              THEN << line >> ELSE << >>)
             \o FilterUrls(Tail(lines))

\* what the server returns for a URL: each URL has a content of its own
ContentOf(url) == [ fetchedFrom |-> url ]

InitUrlList ==
    /\ options \in [ concurrency : {1}, verbose : {FALSE}, aggressive : {FALSE} ]
    /\ entries = << >>
    /\ run = 1
    /\ firstResult = << >>
    /\ Idle
    /\ handler = [ pc |-> "off" ]
    /\ normalization = [ pc |-> "off" ]
    /\ inference = [ pc |-> "off" ]
    /\ cli = [ pc |-> "off" ]
    /\ call = [ pc |-> "off" ]
    /\ \E lines \in UNION { [ 1..n -> ListLines ] : n \in 0..MaxLines } :
          urlList = [ pc |-> "list", lines |-> lines, urls |-> << >>, i |-> 1,
                      disk |-> << >>, results |-> << >>, tasks |-> << >> ]

UrlListFrame ==
    UNCHANGED << options, mainVars, handler, normalization, inference, cli, call >>

\* processUrlList, lines 120-128
ReadUrlList ==
    /\ urlList.pc = "list"
    /\ urlList' = [ urlList EXCEPT
          !.urls = FilterUrls(urlList.lines),
          !.pc = IF FilterUrls(urlList.lines) = << >> THEN "done" ELSE "fetching" ]
    /\ UrlListFrame

\* one iteration of the loop, the fetch succeeds: lines 142-146
FetchOk ==
    /\ urlList.pc = "fetching"
    /\ urlList.i <= Len(urlList.urls)
    /\ LET url      == urlList.urls[urlList.i]
           filePath == SafeFilename(url)
       IN  urlList' = [ urlList EXCEPT
              !.disk = MapSet(@, filePath, ContentOf(url)),
              !.results = Append(@, [ filePath |-> filePath, origin |-> url ]),
              !.i = @ + 1 ]
    /\ UrlListFrame

\* one iteration of the loop, fetchRemoteCode throws: lines 147-149
FetchFails ==
    /\ urlList.pc = "fetching"
    /\ urlList.i <= Len(urlList.urls)
    /\ urlList' = [ urlList EXCEPT !.i = @ + 1 ]
    /\ UrlListFrame

\* return results (line 153); main hands them to processFiles (lines 624, 649)
ReturnResults ==
    /\ urlList.pc = "fetching"
    /\ urlList.i > Len(urlList.urls)
    /\ urlList' = [ urlList EXCEPT
          !.pc = IF urlList.results = << >> THEN "done" ELSE "reading",
          !.i = 1 ]
    /\ UrlListFrame

\* processEntry reads entry.filePath and posts the content with entry.origin,
\* lines 531-558; the worker stamps origin on every operation of the content
ReadEntryFile ==
    /\ urlList.pc = "reading"
    /\ LET entry == urlList.results[urlList.i]
       IN  urlList' = [ urlList EXCEPT
              !.tasks = Append(@, [ filePath |-> entry.filePath,
                                    code |-> MapGet(urlList.disk, entry.filePath),
                                    origin |-> entry.origin ]),
              !.i = @ + 1,
              !.pc = IF urlList.i = Len(urlList.results) THEN "done" ELSE "reading" ]
    /\ UrlListFrame

NextUrlList ==
    \/ ReadUrlList
    \/ FetchOk
    \/ FetchFails
    \/ ReturnResults
    \/ ReadEntryFile

SpecUrlList == InitUrlList /\ [][NextUrlList]_vars

-----------------------------------------------------------------------------
(* Two calls of processFiles on one task set, the first with concurrency 1 *)
(* and the second with concurrency 8                                       *)

RunAgain ==
    /\ pc = "done"
    /\ run = 1
    /\ UNCHANGED << unitVars, entries >>
    /\ run' = 2
    /\ firstResult' = result
    /\ options' = [ options EXCEPT !.concurrency = 8 ]
    /\ pc' = "idle"
    /\ workers' = << >>
    /\ created' = 0
    /\ listeners' = << >>
    /\ allOperations' = << >>
    /\ bar' = 0
    /\ queue' = << >>
    /\ activeCount' = 0
    /\ status' = [ t \in Tasks |-> "queued" ]
    /\ assigned' = [ t \in Tasks |-> 0 ]
    /\ resolved' = [ t \in Tasks |-> FALSE ]
    /\ inbox' = << >>
    /\ outbox' = << >>
    /\ finalReceived' = [ t \in Tasks |-> FALSE ]
    /\ arrived' = << >>
    /\ posts' = [ t \in Tasks |-> 0 ]
    /\ terminated' = {}
    /\ result' = << >>

InitTwoRuns ==
    /\ options \in [ concurrency : {1}, verbose : BOOLEAN, aggressive : {FALSE} ]
    /\ entries \in FileEntries
    /\ run = 1
    /\ firstResult = << >>
    /\ Idle
    /\ Parked

NextTwoRuns ==
    \/ Start
    \/ \E t \in Tasks : ReadOk(t)
    \/ \E t \in Tasks : ReadError(t)
    \/ \E w \in 1..created : WorkerHandle(w)
    \/ \E w \in 1..created : Receive(w)
    \/ RunAgain

SpecTwoRuns == InitTwoRuns /\ [][NextTwoRuns]_vars

-----------------------------------------------------------------------------
(* Two calls of processFiles on one task set with one concurrency, the     *)
(* first without --verbose and the second with it                          *)

RunVerbose ==
    /\ pc = "done"
    /\ run = 1
    /\ UNCHANGED << unitVars, entries >>
    /\ run' = 2
    /\ firstResult' = result
    /\ options' = [ options EXCEPT !.verbose = TRUE ]
    /\ pc' = "idle"
    /\ workers' = << >>
    /\ created' = 0
    /\ listeners' = << >>
    /\ allOperations' = << >>
    /\ bar' = 0
    /\ queue' = << >>
    /\ activeCount' = 0
    /\ status' = [ t \in Tasks |-> "queued" ]
    /\ assigned' = [ t \in Tasks |-> 0 ]
    /\ resolved' = [ t \in Tasks |-> FALSE ]
    /\ inbox' = << >>
    /\ outbox' = << >>
    /\ finalReceived' = [ t \in Tasks |-> FALSE ]
    /\ arrived' = << >>
    /\ posts' = [ t \in Tasks |-> 0 ]
    /\ terminated' = {}
    /\ result' = << >>

InitVerboseRuns ==
    /\ options \in [ concurrency : Concurrencies, verbose : {FALSE}, aggressive : {FALSE} ]
    /\ entries \in FileEntries
    /\ run = 1
    /\ firstResult = << >>
    /\ Idle
    /\ Parked

NextVerboseRuns ==
    \/ Start
    \/ \E t \in Tasks : ReadOk(t)
    \/ \E t \in Tasks : ReadError(t)
    \/ \E w \in 1..created : WorkerHandle(w)
    \/ \E w \in 1..created : Receive(w)
    \/ RunVerbose

SpecVerboseRuns == InitVerboseRuns /\ [][NextVerboseRuns]_vars

-----------------------------------------------------------------------------
(* Vocabulary of the properties *)

\* the signatures of a list of operation records
Signatures(ops) == { Normalize(op.operation) : op \in Range(ops) }

\* a task whose read succeeds
Readable(t) == Files[entries[t].filePath].readable

\* the operation list the worker reports for task t
TaskOperations(t) ==
    MapValues(WorkerOperations([ filePath |-> entries[t].filePath,
                                 code |-> CodeOf(entries[t].filePath),
                                 origin |-> entries[t].origin, task |-> t ]))

\* the signatures the readable tasks of the run yield
ExpectedSignatures == UNION { Signatures(TaskOperations(t)) : t \in { u \in Tasks : Readable(u) } }

\* a task that holds a worker: handed to it, and neither its result message
\* received nor its read failed
InFlight(t) == assigned[t] # 0 /\ ~finalReceived[t] /\ status[t] # "failed"

\* the records retained when the result messages of the readable tasks arrive
\* in task order
RECURSIVE MergedInTaskOrder(_, _)
MergedInTaskOrder(all, t) ==
    IF t > Len(entries) THEN all
    ELSE MergedInTaskOrder(IF Readable(t) THEN MergeOperations(all, TaskOperations(t))
                           ELSE all,
                           t + 1)

\* the record of the first result message, in arrival order, that carries sig
FirstArrival(sig) ==
    LET i == CHOOSE k \in 1..Len(arrived) :
                 /\ sig \in Signatures(arrived[k])
                 /\ \A l \in 1..(k - 1) : sig \notin Signatures(arrived[l])
        j == CHOOSE k \in 1..Len(arrived[i]) :
                 /\ Normalize(arrived[i][k].operation) = sig
                 /\ \A l \in 1..(k - 1) : Normalize(arrived[i][l].operation) # sig
    IN  arrived[i][j]

\* the GQL_PATTERN matches the worker's passes see in a code, in scan order
RECURSIVE Flatten(_)
Flatten(texts) == IF texts = << >> THEN << >> ELSE Head(texts) \o Flatten(Tail(texts))

ScannedMatches(code, aggressive) ==
    Flatten(code.comments)
        \o (IF code.parses /\ Thrown([ code |-> code ], aggressive) = "none"
            THEN Flatten(code.tagged) ELSE << >>)

\* the text of the first scanned match with signature sig
FirstMatchText(code, aggressive, sig) ==
    LET ms == ScannedMatches(code, aggressive)
        i  == CHOOSE k \in 1..Len(ms) :
                  /\ Normalize(ms[k].fullMatch) = sig
                  /\ \A l \in 1..(k - 1) : Normalize(ms[l].fullMatch) # sig
    IN  ms[i].fullMatch

-----------------------------------------------------------------------------
(* Properties *)

C2_RecordsIndependentOfArrival ==
    (pc = "done" /\ ~options.verbose)
        => Range(result) = Range(MapValues(MergedInTaskOrder(<< >>, 1)))

\* C2 as amended: the aggregate holds one record per signature received, the
\* record of the first result message (in arrival order) that carried the
\* signature, and the returned list is the list of these records.
C2_FirstArrivalRetained ==
    /\ MapKeys(allOperations) = UNION { Signatures(arrived[i]) : i \in 1..Len(arrived) }
    /\ \A i, j \in 1..Len(allOperations) :
           allOperations[i].key = allOperations[j].key => i = j
    /\ \A i \in 1..Len(allOperations) :
           allOperations[i].value = FirstArrival(allOperations[i].key)
    /\ pc = "done" => result = MapValues(allOperations)

\* C2 witness: the run has returned, two result messages carried different
\* records under one signature, and the record of the earlier one is returned.
C2_Witness ==
    /\ pc = "done"
    /\ \E i, j \in 1..Len(arrived) :
         /\ i < j
         /\ \E a \in Range(arrived[i]), b \in Range(arrived[j]) :
              /\ Normalize(a.operation) = Normalize(b.operation)
              /\ a # b
              /\ a \in Range(result)
              /\ b \notin Range(result)

C4_GlobalKept ==
    \A i \in 1..Len(allOperations) :
        /\ i <= Len(allOperations')
        /\ allOperations'[i] = allOperations[i]

\* every record a worker reports from a GQL_PATTERN match is the record of the
\* first such match, in scan order, that has its signature
C4_LocalKept ==
    \A w \in 1..created : \A i \in 1..Len(outbox[w]) :
        LET msg == outbox[w][i]
        IN  msg.hasOperations =>
                \A op \in Range(msg.operations) :
                    op.context = "standard" =>
                        op.operation =
                            Trim(FirstMatchText(CodeOf(entries[msg.task].filePath),
                                                options.aggressive,
                                                Normalize(op.operation)))

C7_ProgressOncePerTask ==
    /\ bar <= Len(entries)
    /\ pc = "done" => bar = Len(entries)

PendingFor(ib, t) ==
    { << w, i >> \in UNION { { << w, i >> : i \in 1..Len(ib[w]) } : w \in DOMAIN ib } :
        ib[w][i].task = t }

\* the 'message' handlers attached for t (one per call of processEntry that got a worker)
HandlersFor(t) ==
    { << w, i >> \in UNION { { << w, i >> : i \in 1..Len(listeners[w]) } : w \in DOMAIN listeners } :
        listeners[w][i] = t }

\* a step posts t to a worker only from "reading", and then t is "posted" for good;
\* a posted, failed or skipped task stays as it is
C11_StepOnce ==
    \A t \in Tasks :
        /\ Cardinality(PendingFor(inbox', t)) > Cardinality(PendingFor(inbox, t))
              => /\ status[t] = "reading"
                 /\ status'[t] = "posted"
                 /\ Cardinality(PendingFor(inbox', t)) = Cardinality(PendingFor(inbox, t)) + 1
        /\ status[t] \in {"posted", "failed", "skipped"} => status'[t] = status[t]
        /\ status[t] = "reading" => status'[t] \in {"reading", "posted", "failed"}

\* processEntry runs at most once for a task
C11_EnteredOnce == \A t \in Tasks : Cardinality(HandlersFor(t)) <= 1

\* C11: a task is posted to a worker at most once in a run, and a task that failed
\* (read error or worker-side error) is never dispatched again.
C11_DispatchedAtMostOnce == [][C11_StepOnce]_vars /\ []C11_EnteredOnce

\* C11 witness: the run is over, one task failed to be read and another one, whose
\* parse failed in the worker, was posted and its result received.
C11_Witness ==
    /\ pc = "done"
    /\ \E t, u \in Tasks :
         /\ status[t] = "failed"
         /\ status[u] = "posted" /\ finalReceived[u]
         /\ ~Files[entries[u].filePath].parses

-----------------------------------------------------------------------------
(* The handler's exceptions *)

Last(s) == s[Len(s)]

\* the operations map as it stands when the handler enters a scan
StoredBefore(msg, scan, aggressive) ==
    LET L1 == CommentScan([ ops |-> << >>, detected |-> {} ], msg)
        L2 == IF RunsStringScan(msg, aggressive)
              THEN AnalyzeStringLiterals(L1, msg, aggressive) ELSE L1
        L3 == IF RunsWholeFileScan(msg, aggressive)
              THEN WholeFileScan(L2, msg.code.scan.patterns, msg) ELSE L2
    IN  CASE scan = "strings" -> L1.ops
          [] scan = "wholefile" -> L2.ops
          [] scan = "ast" -> L3.ops

\* the handler ended by an exception: in a scan, or in parser.parse
Failed(msg, aggressive) ==
    IF Thrown(msg, aggressive) # "none" THEN Thrown(msg, aggressive)
    ELSE IF ~msg.code.parses THEN "ast" ELSE "none"

C13_ParseStep ==
    (handler.pc = "ast" /\ ~handler.msg.code.parses)
        => handler'.local.ops = handler.local.ops

C13_ParseDone ==
    (handler.pc = "done" /\ ~handler.msg.code.parses /\ handler.thrown = "none")
        => /\ \A i \in 1..Len(handler.msg.code.comments) :
                \A j \in 1..Len(handler.msg.code.comments[i]) :
                    \E k \in 1..Len(Last(handler.posted).operations) :
                        /\ Last(handler.posted).operations[k].name =
                              handler.msg.code.comments[i][j].operationName
                        /\ Normalize(Last(handler.posted).operations[k].operation) =
                              Normalize(handler.msg.code.comments[i][j].fullMatch)
           /\ options.aggressive =>
                \A i \in 1..Len(handler.msg.code.scan.patterns) :
                    \E k \in 1..Len(Last(handler.posted).operations) :
                        Last(handler.posted).operations[k].operation =
                            handler.msg.code.scan.patterns[i].text

C13_ParseFailureKeepsScans == [][C13_ParseStep]_vars /\ []C13_ParseDone

\* a file that does not parse, whose result holds a comment's operation and a
\* whole-file match
C13_Witness ==
    /\ handler.pc = "done"
    /\ ~handler.msg.code.parses
    /\ options.aggressive
    /\ \E k \in 1..Len(Last(handler.posted).operations) :
          Last(handler.posted).operations[k].name = "B"
    /\ \E k \in 1..Len(Last(handler.posted).operations) :
          Last(handler.posted).operations[k].context = "pattern_0"

\* C16: a step of the handler leaves every record of the operations map as it is
C16_StepKeepsRecords ==
    handler.pc \notin {"off", "done"} =>
        \A i \in 1..Len(handler.local.ops) :
            /\ i <= Len(handler'.local.ops)
            /\ handler'.local.ops[i] = handler.local.ops[i]

C16_RecordsNeverChange == [][C16_StepKeepsRecords]_vars

\* C18: every record stored from a match of patterns 1-3 of MINIFIED_GQL_PATTERNS
\* holds the match, with one closing brace appended if the match had none at its end
C18_PatternMatchesRepaired ==
    handler.pc = "done" =>
        \A k \in 1..Len(handler.local.ops) :
            handler.local.ops[k].value.context \in {"pattern_1", "pattern_2", "pattern_3"}
                => /\ EndsWithBrace(handler.local.ops[k].value.operation)
                   /\ \E i \in 1..Len(handler.msg.code.scan.patterns) :
                         handler.local.ops[k].value.operation =
                             Repaired(handler.msg.code.scan.patterns[i].text)

\* C19: the one-line file holding the escaped mutation Bar payload gives no
\* operation without aggressive mode and exactly one, named Bar, with it
C19_EscapedPayload ==
    (handler.pc = "done" /\ handler.msg.filePath = "e.js")
        => IF options.aggressive
           THEN /\ Len(Last(handler.posted).operations) = 1
                /\ Last(handler.posted).operations[1].name = "Bar"
           ELSE Last(handler.posted).operations = << >>

-----------------------------------------------------------------------------
(* Termination of processFiles *)

\* the task's file cannot be read
Unreadable(t) == ~Files[entries[t].filePath].readable

\* the task's file is read and the worker's handler is ended by an exception
WorkerFails(t) ==
    /\ ~Unreadable(t)
    /\ Failed([ filePath |-> entries[t].filePath, code |-> CodeOf(entries[t].filePath),
                origin |-> entries[t].origin, task |-> t ], options.aggressive) # "none"

RECURSIVE Sum(_, _)
Sum(f, S) ==
    IF S = {} THEN 0
    ELSE LET x == CHOOSE y \in S : TRUE IN f[x] + Sum(f, S \ {x})

\* what is left to do before processFiles returns: the call itself, every task
\* not yet read, every message a worker has to handle (it posts up to four
\* messages for it) and every message the main thread has to receive
Remaining ==
    (IF pc = "idle" THEN 1 + 8 * Len(entries) ELSE 0)
    + Sum([ t \in Tasks |-> CASE status[t] = "queued" -> 8
                              [] status[t] = "reading" -> 7
                              [] OTHER -> 0 ], Tasks)
    + Sum([ w \in 1..created |-> 5 * Len(inbox[w]) + Len(outbox[w]) ], 1..created)

\* a callback of the main thread or a worker's handler is ready to run
Ready ==
    \/ pc = "idle"
    \/ /\ pc = "draining"
       /\ \/ \E t \in Tasks : status[t] = "reading"
          \/ \E w \in 1..created : inbox[w] # << >> \/ outbox[w] # << >>

\* the event loop runs a callback that is ready, the file system completes a
\* pending read and a worker thread handles a message it was sent: weak
\* fairness of Next, whose enabling condition is Ready
FairSpec == Spec /\ ([]<>(~Ready) \/ []<><<Next>>_vars)

C14_Progress == pc # "done" => Remaining' < Remaining

C14_Returned ==
    /\ Remaining >= 0
    /\ pc # "done" => Ready
    /\ pc = "done" =>
          /\ terminated = 1..created
          /\ (\A t \in Tasks : Unreadable(t)) => result = << >>

-----------------------------------------------------------------------------
(* Normalisation, inference and the concurrency option *)

\* C15: normalising a normalised text changes nothing, and the key under which
\* the main thread stores a record is the key under which the worker stored it
C15_NormalizeIdempotent ==
    /\ normalization.pc \in {"normalized", "stored", "merged"}
          => normalization.twice = normalization.once
    /\ normalization.pc = "merged"
          => /\ Len(normalization.local) = 1
             /\ Len(normalization.all) = 1
             /\ normalization.all[1].key = normalization.local[1].key
             /\ normalization.all[1].value = normalization.local[1].value

\* a text with a run of whitespace inside it has been stored by both
C15_Witness ==
    /\ normalization.pc = "merged"
    /\ \E i \in 2..(Len(normalization.text) - 2) :
          /\ ~IsSpace(normalization.text[i - 1])
          /\ IsSpace(normalization.text[i])
          /\ IsSpace(normalization.text[i + 1])
          /\ ~IsSpace(normalization.text[i + 2])
    /\ normalization.all[1].key = normalization.local[1].key

\* C17: the variables inferred from a list of name: Type entries have one entry
\* for each declared name, with the value the heuristic gives a type declared
\* for the name (the only one when the name is declared once);
\* id: String!, count: Int gives id the sample string and count 0
C17_InferredFromArguments ==
    inference.pc = "inferred" =>
        /\ MapKeys(inference.variables) = { d.name : d \in Range(inference.declared) }
        /\ Len(inference.variables) = Cardinality(MapKeys(inference.variables))
        /\ \A k \in MapKeys(inference.variables) :
              MapGet(inference.variables, k) \in
                  { d.value : d \in { e \in Range(inference.declared) : e.name = k } }
        /\ inference.args = NameId \o << ":", " " >> \o TString \o << "!", ",", " " >>
                                \o NameCount \o << ":", " " >> \o TInt
              => inference.variables = << [ key |-> NameId, value |-> SampleString ],
                                          [ key |-> NameCount, value |-> Zero ] >>

\* the variables of id: String!, count: Int have been inferred
C17_Witness ==
    /\ inference.pc = "inferred"
    /\ inference.args = NameId \o << ":", " " >> \o TString \o << "!", ",", " " >>
                            \o NameCount \o << ":", " " >> \o TInt
    /\ Len(inference.variables) = 2

\* C20: every positive decimal integer given to --concurrency passes the
\* validation and is the limiter's bound and, up to the number of files, the
\* pool's size; without the option the value is 4
C20_ConcurrencyUsed ==
    /\ (cli.pc # "off" /\ cli.given /\ Decimal(cli.value) >= 1)
          => /\ cli.pc # "exit"
             /\ cli.pc = "running"
                   => /\ cli.limit = Decimal(cli.value)
                      /\ cli.pool = Min(Decimal(cli.value), cli.files)
    /\ (cli.pc = "running" /\ ~cli.given) => cli.limit = 4

-----------------------------------------------------------------------------
(* The order of the passes inside one task *)

\* what the structural pass stores when it runs on an empty map
StructuralRecords(msg) ==
    TraverseAst(<< >>, msg.code, msg.filePath, OriginOr(msg.origin, msg.filePath))

\* what the comment scan stores
CommentRecords(msg) == CommentScan([ ops |-> << >>, detected |-> {} ], msg).ops

\* C21: when the handler reports, an operation the structural pass finds (and the
\* comment scan does not) is held with the structural pass's record, whatever
\* the string-literal scan and the whole-file scan found
C21_StructuralRecordRetained ==
    (handler.pc = "done" /\ handler.msg.code.parses /\ handler.thrown = "none") =>
        \A sig \in MapKeys(StructuralRecords(handler.msg)) \ MapKeys(CommentRecords(handler.msg)) :
            /\ MapHas(handler.local.ops, sig)
            /\ MapGet(handler.local.ops, sig) = MapGet(StructuralRecords(handler.msg), sig)

\* the scans the handler has called, as a set
ScansRun == Range(handler.scans)

\* C22: without aggressive mode, a file judged likely minified gets the
\* string-literal scan and the whole-file pattern scan, and any other file gets
\* neither
C22_MinifiedRunsBothScans ==
    (handler.pc = "done" /\ ~options.aggressive) =>
        IF IsLikelyMinified(handler.msg.code)
        THEN {"strings", "wholefile"} \subseteq ScansRun
        ELSE {"strings", "wholefile"} \cap ScansRun = {}

-----------------------------------------------------------------------------
(* The CallExpression visitor *)

\* C23: extractOperation leaves every entry of the variables mapping it is
\* given as it is, whatever its value, and adds entries for absent names only
C23_PresentEntriesKept ==
    (call.pc = "done" /\ call.source # "none") =>
        \A k \in MapKeys(call.given) :
            /\ MapHas(call.after, k)
            /\ MapGet(call.after, k) = MapGet(call.given, k)

\* C24: a decoded body gives the operation of its query field, or of its
\* mutation field when it has no query field, with the decoded variables; a
\* body that does not decode gives the operations of its raw text
C24_QueryOrMutationField ==
    call.pc = "done" =>
        LET b == call.body
            wanted == IF b.decodes /\ ~b.isNull /\ b.query.kind = "string"
                      THEN b.query.matches
                      ELSE IF b.decodes /\ ~b.isNull /\ b.query.kind = "absent"
                              /\ b.mutation.kind = "string"
                           THEN b.mutation.matches
                           ELSE IF ~b.decodes THEN b.raw ELSE << >>
        IN  /\ { call.operations[i].value.name : i \in 1..Len(call.operations) }
                   = { wanted[i].operationName : i \in 1..Len(wanted) }
            /\ (call.source = "query" /\ b.hasVariables) => call.given = b.variables
            /\ call.source = "raw" => call.thrown

-----------------------------------------------------------------------------
(* The verbose option *)

-----------------------------------------------------------------------------
(* The free-worker list *)

\* C26: the free-worker list holds each worker at most once, and so never more
\* entries than there are workers
C26_FreeListHasNoDuplicates ==
    /\ \A i, j \in 1..Len(workers) : workers[i] = workers[j] => i = j
    /\ Len(workers) <= created

\* C27: no task returns from processEntry for lack of a free worker: every task
\* the limiter has admitted popped a worker of the pool
C27_NoTaskSkipped ==
    \A t \in Tasks :
        /\ status[t] # "skipped"
        /\ status[t] # "queued" => assigned[t] \in 1..created

\* more tasks than workers, and every task, the later ones included, got a worker
C27_Witness ==
    /\ pc = "done"
    /\ created < Len(entries)
    /\ \A t \in Tasks : assigned[t] \in 1..created
    /\ \E t \in Tasks : t > created /\ status[t] = "posted"

-----------------------------------------------------------------------------
(* The worker from one task to the next *)

\* C28: what the worker reports for a task is what the handler computes from
\* the task message and the options alone, whichever messages the worker
\* handled before
C28_ReportDependsOnTaskOnly ==
    handler.pc = "done" =>
        /\ handler.local.ops = WorkerOperations(handler.msg)
        /\ Last(handler.posted) =
               ResultMessage(handler.msg.task, MapValues(WorkerOperations(handler.msg)))

\* the worker reports operations for a task after another task whose
\* operations and detected strings were others
C28_Witness ==
    /\ handler.pc = "done"
    /\ handler.before # << >>
    /\ WorkerOperations(handler.before[1]) # << >>
    /\ WorkerOperations(handler.before[1]) # WorkerOperations(handler.msg)
    /\ HandlerBody(handler.before[1], options.aggressive).detected # {}
    /\ Last(handler.posted).operations # << >>

-----------------------------------------------------------------------------
(* The variables stored with an operation *)

\* C29: the variables stored with an operation that extractOperation found are
\* variables of the operation's own argument list, also when the text holds
\* other operations
C29_OwnVariablesOnly ==
    handler.pc = "done" =>
        LET ms == ScannedMatches(handler.msg.code, options.aggressive)
        IN  \A k \in 1..Len(handler.local.ops) :
                handler.local.ops[k].value.context = "standard" =>
                    \E i \in 1..Len(ms) :
                        /\ Normalize(Repaired(ms[i].fullMatch)) = handler.local.ops[k].key
                        /\ MapKeys(handler.local.ops[k].value.variables)
                               \subseteq MapKeys(InferVariables(<< >>, ms[i].args))

-----------------------------------------------------------------------------
(* URL-list mode *)

\* C30: two distinct URLs of the list never get the same temporary file, and
\* the content scanned under an origin is the content fetched from that URL
C30_OriginIsContentSource ==
    urlList.pc # "off" =>
        /\ \A i, j \in 1..Len(urlList.results) :
              urlList.results[i].origin # urlList.results[j].origin
                  => urlList.results[i].filePath # urlList.results[j].filePath
        /\ \A t \in 1..Len(urlList.tasks) :
              urlList.tasks[t].code = ContentOf(urlList.tasks[t].origin)

====
